---- MODULE Spec2Model ----
(***************************************************************************)
(* A model of src/main.rs: the two program variants multi_thread and       *)
(* single_thread, the chunk splitter chunks, the delimiter scanner         *)
(* find_new_line_in_chunk / find_new_line_pos and the row parser           *)
(* parse_next_row.  Byte slices are sequences of numbers 0..255; a slice   *)
(* of BUFFER is kept as its pair of offsets.                               *)
(***************************************************************************)
EXTENDS Integers, Sequences, FiniteSets, TLC

VARIABLES
    feature,        \* the cargo feature main() was built with
    input,          \* the rows the byte source was written from
    BUFFER,         \* the mapped file
    chunk_size,     \* second argument of chunks()
    pc,             \* position of the main thread
    result,         \* the Vec chunks() returned
    w_pc,           \* per worker thread: "run", "sent" or "panicked"
    w_i,            \* per worker thread: its local i
    w_stats,        \* per worker thread: its local cities_stats
    channel,        \* messages sent on tx and not yet received on rx
    i,              \* the main thread's local i
    cities_stats,   \* the main thread's local cities_stats
    out,            \* keys written to stdout so far, in order
    remaning,       \* argument of a single call of a scanner or the parser
    ret,            \* what that call returned
    exact           \* true (unbounded) sum and count of the rows accumulated

vars == <<feature, input, BUFFER, chunk_size, pc, result, w_pc, w_i, w_stats,
          channel, i, cities_stats, out, remaning, ret, exact>>

----------------------------------------------------------------------------
(* Program constants.                                                      *)

NL == 10
SEMI == 59
ZERO == 48
LANES64 == 64
LANES8 == 8
U8Mod == 256
I16Max == 32767
I16Min == -32768
I32Max == 2147483647
cache_size == 40000
TailLen == 6

(* Bounds of the model.                                                    *)

MaxRows == 3
MaxEdgeRows == 2
MaxChunkSize == 7
LongKeyLen == 60
MaxScanLen == 260
NearOverflowRows == 2388740
MaxNumSteps == 12

----------------------------------------------------------------------------
(* Helpers on numbers and slices.                                          *)

Min2(a, b) == IF a < b THEN a ELSE b

MinOf(S) == CHOOSE x \in S : \A y \in S : x <= y

\* buffer[s..e]
Slice(buffer, s, e) == SubSeq(buffer, s + 1, e)

RECURSIVE BitOr(_, _)
BitOr(a, b) ==
    IF a = 0 THEN b
    ELSE IF b = 0 THEN a
    ELSE (IF a % 2 = 1 \/ b % 2 = 1 THEN 1 ELSE 0) + 2 * BitOr(a \div 2, b \div 2)

\* Simd::load_or_default: the lanes past the end of the slice are 0
load_or_default(slice, lanes) ==
    [k \in 1..lanes |-> IF k <= Len(slice) THEN slice[k] ELSE 0]

AsU8(n) == n % U8Mod

\* bool as u8
B(flag) == IF flag THEN 1 ELSE 0

----------------------------------------------------------------------------
(* The delimiter scanner.                                                  *)

find_new_line_in_chunk(chunk) ==
    LET v == load_or_default(chunk, LANES64)
        bm == {k \in 1..LANES64 : v[k] = NL}
        pos == IF bm = {} THEN LANES64 ELSE MinOf(bm) - 1
        found == bm # {}
    IN  [found |-> found, pos |-> AsU8(pos)]

find_new_line_pos(rem) ==
    LET r1 == find_new_line_in_chunk(rem)
        r2 == find_new_line_in_chunk(Slice(rem, Min2(LANES64, Len(rem)), Len(rem)))
        t1 == AsU8(B(r1.found) * r1.pos)
        t2 == AsU8(B(~r1.found) * B(r2.found) * r2.pos)
        t3 == AsU8(B(~r1.found) * B(~r2.found) * AsU8(Len(rem)))
    IN  BitOr(BitOr(t1, t2), t3)

----------------------------------------------------------------------------
(* The row parser.  A call either returns (city, measure, last), panics,   *)
(* or runs into undefined behaviour (unwrap_unchecked on None).            *)

Panic == [kind |-> "panic"]

\* x ^ sign for sign in {0, -1} on i16: the identity, or the bit complement
XorSign(x, sign) == IF sign = 0 THEN x ELSE -x - 1

\* lines 207-220, given the lane first_set() yielded
parse_with(rem, end_line, measure_start_pos) ==
    LET line == Slice(rem, 0, end_line)
        measure_bytes == load_or_default(Slice(line, Len(line) - TailLen, Len(line)), LANES8)
        row_delimiter_pos == Len(line) - (TailLen - measure_start_pos)
        measure_parts == [k \in 0..(LANES8 - 1) |-> AsU8(measure_bytes[k + 1] - ZERO)]
        sign == -B(measure_parts[measure_start_pos + 1] > 9)
        hundreds == B(measure_parts[2] < 9) * measure_parts[2] * 100
        significand == AsU8(AsU8(10 * measure_parts[3]) + AsU8(measure_parts[5])) + hundreds
        measure == XorSign(significand, sign) - sign
    IN  [kind |-> "ok",
         city |-> Slice(line, 0, row_delimiter_pos),
         measure |-> measure,
         last |-> end_line + 1]

\* lines 195-206: the part of parse_next_row every build agrees on
parse_next_row(rem) ==
    LET end_line == find_new_line_pos(rem)
        line == Slice(rem, 0, end_line)
    IN  IF Len(line) < TailLen
        THEN Panic      \* line.len() - 6 underflows, or the slice start is out of range
        ELSE LET measure_bytes == load_or_default(Slice(line, Len(line) - TailLen, Len(line)), LANES8)
                 mask == {k \in 0..(LANES8 - 1) : measure_bytes[k + 1] = SEMI}
             IN  IF mask = {}
                 THEN [kind |-> "ub"]
                 ELSE parse_with(rem, end_line, MinOf(mask))

\* every outcome a build can produce: after unwrap_unchecked() on None the
\* lane is any value; a lane past 5 makes 6 - measure_start_pos underflow or
\* the index measure_start_pos + 1 leave the vector, which panics
ParseOutcomes(rem) ==
    LET r == parse_next_row(rem)
    IN  IF r.kind = "ub"
        THEN {Panic} \cup {parse_with(rem, find_new_line_pos(rem), m) : m \in 0..(TailLen - 1)}
        ELSE {r}

----------------------------------------------------------------------------
(* Stats and the two ways it is updated.                                   *)

I32Min == -I32Max - 1

\* a + b on i32 when it does not fit
add_overflows(a, b) ==
    \/ b > 0 /\ a > I32Max - b
    \/ b < 0 /\ a < I32Min - b

\* a + b on i32 in a build without overflow checks: the sum modulo 2^32,
\* computed without leaving the 32-bit range
add_i32(a, b) ==
    IF b > 0 /\ a > I32Max - b THEN ((a - I32Max) - 1) + ((b - I32Max) - 1)
    ELSE IF b < 0 /\ a < I32Min - b THEN ((a + I32Max) + 1) + ((b + I32Max) + 1)
    ELSE a + b

NewStats == [min |-> I16Max, max |-> I16Min, sum |-> 0, count |-> 0]

\* lines 60-63 and 127-130.  count is a u32; every count of the model stays
\* below 2^31, where u32 addition is exact.
fold_row(stats, measure) ==
    [min |-> Min2(measure, stats.min),
     max |-> IF measure > stats.max THEN measure ELSE stats.max,
     count |-> stats.count + 1,
     sum |-> add_i32(stats.sum, measure)]

fold_overflows(stats, measure) == add_overflows(stats.sum, measure)

\* lines 77-80
merge_stats(global_stats, stats) ==
    [min |-> Min2(stats.min, global_stats.min),
     max |-> IF stats.max > global_stats.max THEN stats.max ELSE global_stats.max,
     sum |-> add_i32(global_stats.sum, stats.sum),
     count |-> global_stats.count + stats.count]

merge_overflows(global_stats, stats) == add_overflows(global_stats.sum, stats.sum)

EmptyMap == [k \in {} |-> NewStats]

\* cities_stats.entry(city).or_insert(Stats {..}) followed by the update
fold_into(map, city, measure) ==
    [k \in DOMAIN map \cup {city} |->
        IF k = city
        THEN fold_row(IF city \in DOMAIN map THEN map[city] ELSE NewStats, measure)
        ELSE map[k]]

fold_into_overflows(map, city, measure) ==
    city \in DOMAIN map /\ fold_overflows(map[city], measure)

\* the loop of lines 74-84 without its contains_key branch: every entry of
\* the received map is inserted over the one already there
merge_map_insert_only(global, work) ==
    [k \in DOMAIN global \cup DOMAIN work |->
        IF k \in DOMAIN work THEN work[k] ELSE global[k]]

\* lines 74-84: the whole for loop over one received map
merge_map(global, work) ==
    [k \in DOMAIN global \cup DOMAIN work |->
        IF k \in DOMAIN global /\ k \in DOMAIN work THEN merge_stats(global[k], work[k])
        ELSE IF k \in DOMAIN work THEN work[k]
        ELSE global[k]]

merge_map_overflows(global, work) ==
    \E k \in DOMAIN global \cap DOMAIN work : merge_overflows(global[k], work[k])

----------------------------------------------------------------------------
(* The chunk splitter, lines 158-170.  A chunk is the pair of offsets of   *)
(* &buffer[s..e].                                                          *)

RECURSIVE chunks_from(_, _, _, _)
chunks_from(buffer, size, at, acc) ==
    IF at > Len(buffer)
    THEN acc
    ELSE LET s == at
             c == Min2(at + size, Len(buffer))
             e == c + find_new_line_pos(Slice(buffer, c, Len(buffer)))
         IN  chunks_from(buffer, size, e + 1, Append(acc, [s |-> s, e |-> e]))

chunks(buffer, size) == chunks_from(buffer, size, 0, <<>>)

ChunkBytes(k) == Slice(BUFFER, result[k].s, result[k].e)

----------------------------------------------------------------------------
(* One pass of the loop body shared by a worker (lines 53-64) and by       *)
(* single_thread (lines 120-131): parse a row, fold it, advance.  An       *)
(* overflowing += panics in a build with overflow checks and wraps in one  *)
(* without.                                                                *)

RowOutcomes(map, rem) ==
    UNION { IF o.kind = "panic"
            THEN {Panic}
            ELSE {[kind |-> "ok",
                   map |-> fold_into(map, o.city, o.measure),
                   last |-> o.last]}
                 \cup (IF fold_into_overflows(map, o.city, o.measure) THEN {Panic} ELSE {})
          : o \in ParseOutcomes(rem) }

\* slice Ord: lexicographic on bytes, a proper prefix first
LexLess(a, b) ==
    \E k \in 1..(Min2(Len(a), Len(b)) + 1) :
        /\ \A j \in 1..(k - 1) : a[j] = b[j]
        /\ k <= Len(b)
        /\ (k <= Len(a) => a[k] < b[k])

Emitted == {out[k] : k \in 1..Len(out)}

\* the keys the for loop of lines 93 / 138 may yield next: a BTreeMap
\* iterates in ascending key order, an FxHashMap in an unspecified order
next_cities ==
    LET left == DOMAIN cities_stats \ Emitted
    IN  IF feature = "multi_thread"
        THEN {c \in left : \A d \in left : d = c \/ LexLess(c, d)}
        ELSE left

----------------------------------------------------------------------------
(* Inputs.  A row is kept with the key and the numeric text it was written *)
(* from; valid tells whether it matches key;value of the input grammar.    *)

Rep(byte, n) == [k \in 1..n |-> byte]

Row(key, val, valid) == [key |-> key, val |-> val, text |-> key \o <<SEMI>> \o val, valid |-> valid]

\* ab;1.0  ab;-2.5  cd;95.3
PlainRows ==
    { Row(<<97, 98>>, <<49, 46, 48>>, TRUE),
      Row(<<97, 98>>, <<45, 50, 46, 53>>, TRUE),
      Row(<<99, 100>>, <<57, 53, 46, 51>>, TRUE) }

\* a;1.0  aaa..a;1.0  ef;abc: a line shorter than 6 bytes, a line of 64 bytes
\* and more, a value that is no number
EdgeRows ==
    { Row(<<97>>, <<49, 46, 48>>, TRUE),
      Row(Rep(97, LongKeyLen), <<49, 46, 48>>, TRUE),
      Row(<<101, 102>>, <<97, 98, 99>>, FALSE) }

RECURSIVE SeqsUpTo(_, _)
SeqsUpTo(S, n) ==
    IF n = 0 THEN {<<>>}
    ELSE LET shorter == SeqsUpTo(S, n - 1)
         IN  shorter \cup {Append(q, x) : q \in {r \in shorter : Len(r) = n - 1}, x \in S}

RECURSIVE Join(_)
Join(rows) ==
    IF Len(rows) = 0 THEN <<>>
    ELSE IF Len(rows) = 1 THEN rows[1].text
    ELSE rows[1].text \o <<NL>> \o Join(Tail(rows))

ChunkSizes == {1, MaxChunkSize, cache_size}

NoRet == [kind |-> "none"]

IdleCall == remaning = <<>> /\ ret = NoRet /\ exact = [sum |-> 0, count |-> 0]

IdleProgram ==
    /\ result = <<>> /\ w_pc = <<>> /\ w_i = <<>> /\ w_stats = <<>>
    /\ channel = <<>> /\ i = 0 /\ cities_stats = EmptyMap /\ out = <<>>

----------------------------------------------------------------------------
(* The program: main() runs multi_thread or single_thread on BUFFER.       *)

Init ==
    /\ feature \in {"multi_thread", "single_thread"}
    /\ input \in (SeqsUpTo(PlainRows, MaxRows)
                    \cup SeqsUpTo(PlainRows \cup EdgeRows, MaxEdgeRows)) \ {<<>>}
    /\ BUFFER \in {Join(input), Join(input) \o <<NL>>}
    /\ chunk_size \in (IF feature = "multi_thread" THEN ChunkSizes ELSE {0})
    /\ pc = "start"
    /\ IdleProgram
    /\ IdleCall

\* lines 43-44
Split ==
    /\ feature = "multi_thread" /\ pc = "start"
    /\ result' = chunks(BUFFER, chunk_size)
    /\ pc' = "spawn"
    /\ UNCHANGED <<feature, input, BUFFER, chunk_size, w_pc, w_i, w_stats, channel,
                   i, cities_stats, out, remaning, ret, exact>>

\* lines 46-51 and 70-71: one thread per chunk, then the collector's locals
Spawn ==
    /\ pc = "spawn"
    /\ w_pc' = [k \in 1..Len(result) |-> "run"]
    /\ w_i' = [k \in 1..Len(result) |-> 0]
    /\ w_stats' = [k \in 1..Len(result) |-> EmptyMap]
    /\ i' = 0
    /\ cities_stats' = EmptyMap
    /\ pc' = "recv"
    /\ UNCHANGED <<feature, input, BUFFER, chunk_size, result, channel, out,
                   remaning, ret, exact>>

\* lines 52-65: one iteration of a worker's while loop
WorkerRow(w) ==
    /\ w \in DOMAIN w_pc
    /\ w_pc[w] = "run"
    /\ w_i[w] < Len(ChunkBytes(w))
    /\ \E o \in RowOutcomes(w_stats[w], Slice(ChunkBytes(w), w_i[w], Len(ChunkBytes(w)))) :
          IF o.kind = "panic"
          THEN /\ w_pc' = [w_pc EXCEPT ![w] = "panicked"]
               /\ UNCHANGED <<w_i, w_stats>>
          ELSE /\ w_stats' = [w_stats EXCEPT ![w] = o.map]
               /\ w_i' = [w_i EXCEPT ![w] = @ + o.last]
               /\ UNCHANGED w_pc
    /\ UNCHANGED <<feature, input, BUFFER, chunk_size, pc, result, channel,
                   i, cities_stats, out, remaning, ret, exact>>

\* line 66, reached when the while loop ends
WorkerSend(w) ==
    /\ w \in DOMAIN w_pc
    /\ w_pc[w] = "run"
    /\ w_i[w] >= Len(ChunkBytes(w))
    /\ channel' = Append(channel, w_stats[w])
    /\ w_pc' = [w_pc EXCEPT ![w] = "sent"]
    /\ UNCHANGED <<feature, input, BUFFER, chunk_size, pc, result, w_i, w_stats,
                   i, cities_stats, out, remaning, ret, exact>>

\* lines 72-87: one iteration of the collector's loop.  rx.recv() blocks
\* while the channel is empty; it never yields Err, because the tx of
\* line 42 is alive until multi_thread returns.
Recv ==
    /\ feature = "multi_thread" /\ pc = "recv"
    /\ i < Len(result)
    /\ channel # <<>>
    /\ channel' = Tail(channel)
    /\ \/ /\ cities_stats' = merge_map(cities_stats, Head(channel))
          /\ i' = i + 1
          /\ pc' = IF i + 1 < Len(result) THEN "recv" ELSE "output"
       \/ /\ merge_map_overflows(cities_stats, Head(channel))
          /\ pc' = "panicked"
          /\ UNCHANGED <<i, cities_stats>>
    /\ UNCHANGED <<feature, input, BUFFER, chunk_size, result, w_pc, w_i, w_stats,
                   out, remaning, ret, exact>>

\* lines 93-107 and 138-152: one iteration of the output loop
Emit ==
    /\ pc = "output"
    /\ \E city \in next_cities : out' = Append(out, city)
    /\ UNCHANGED <<feature, input, BUFFER, chunk_size, pc, result, w_pc, w_i, w_stats,
                   channel, i, cities_stats, remaning, ret, exact>>

\* lines 108-109 and 153-154
Finish ==
    /\ pc = "output"
    /\ Emitted = DOMAIN cities_stats
    /\ pc' = "done"
    /\ UNCHANGED <<feature, input, BUFFER, chunk_size, result, w_pc, w_i, w_stats,
                   channel, i, cities_stats, out, remaning, ret, exact>>

\* lines 114-119
SingleStart ==
    /\ feature = "single_thread" /\ pc = "start"
    /\ i' = 0
    /\ cities_stats' = EmptyMap
    /\ pc' = IF 0 < Len(BUFFER) THEN "fold" ELSE "output"
    /\ UNCHANGED <<feature, input, BUFFER, chunk_size, result, w_pc, w_i, w_stats,
                   channel, out, remaning, ret, exact>>

\* lines 119-132: one iteration of single_thread's while loop
SingleRow ==
    /\ feature = "single_thread" /\ pc = "fold"
    /\ \E o \in RowOutcomes(cities_stats, Slice(BUFFER, i, Len(BUFFER))) :
          IF o.kind = "panic"
          THEN /\ pc' = "panicked"
               /\ UNCHANGED <<i, cities_stats>>
          ELSE /\ cities_stats' = o.map
               /\ i' = i + o.last
               /\ pc' = IF i + o.last < Len(BUFFER) THEN "fold" ELSE "output"
    /\ UNCHANGED <<feature, input, BUFFER, chunk_size, result, w_pc, w_i, w_stats,
                   channel, out, remaning, ret, exact>>

Next ==
    \/ Split
    \/ Spawn
    \/ \E w \in DOMAIN w_pc : WorkerRow(w)
    \/ \E w \in DOMAIN w_pc : WorkerSend(w)
    \/ Recv
    \/ Emit
    \/ Finish
    \/ SingleStart
    \/ SingleRow

Spec == Init /\ [][Next]_vars

----------------------------------------------------------------------------
(* A single call of find_new_line_pos on a slice.                          *)

IdleInput == feature = "none" /\ input = <<>> /\ BUFFER = <<>> /\ chunk_size = 0

\* offsets at which a slice of ScanInputs may hold a newline
NewlineOffsets ==
    {0, 5, LANES64 - 1, LANES64, LANES64 + 2, 2 * LANES64 - 1, 2 * LANES64}

\* length n, byte 'a' everywhere but a newline at the offsets of P
ScanSlice(n, P) == [k \in 1..n |-> IF (k - 1) \in P THEN NL ELSE 97]

ScanInputs ==
    { ScanSlice(n, P) :
        n \in 0..MaxScanLen,
        P \in {Q \in SUBSET NewlineOffsets : Cardinality(Q) <= 2} }

InitScan ==
    /\ IdleInput /\ IdleProgram
    /\ pc = "scan"
    /\ remaning \in ScanInputs
    /\ ret = NoRet
    /\ exact = [sum |-> 0, count |-> 0]

ScanCall ==
    /\ pc = "scan"
    /\ ret' = [kind |-> "ok", pos |-> find_new_line_pos(remaning)]
    /\ pc' = "returned"
    /\ UNCHANGED <<feature, input, BUFFER, chunk_size, result, w_pc, w_i, w_stats,
                   channel, i, cities_stats, out, remaning, exact>>

SpecScan == InitScan /\ [][ScanCall]_vars

----------------------------------------------------------------------------
(* A single call of parse_next_row at the start of a row.                  *)

\* the text -?[0-9]{1,2}\.[0-9] written without a leading zero
Numeral(neg, tens, units, frac) ==
    (IF neg THEN <<45>> ELSE <<>>)
    \o (IF tens > 0 THEN <<ZERO + tens>> ELSE <<>>)
    \o <<ZERO + units, 46, ZERO + frac>>

Numerals ==
    { Numeral(n, t, u, f) : n \in BOOLEAN, t \in 0..9, u \in 0..9, f \in 0..9 }
    \ {Numeral(TRUE, 0, 0, 0)}

KeyLens == {1, 2, 3, LongKeyLen - 1, LongKeyLen}

\* ef;abc  ef;123.4  efgh12.5
MalformedRows ==
    { Row(<<101, 102>>, <<97, 98, 99>>, FALSE),
      Row(<<101, 102>>, <<49, 50, 51, 46, 52>>, FALSE),
      [key |-> <<101, 102, 103, 104>>, val |-> <<49, 50, 46, 53>>,
       text |-> <<101, 102, 103, 104, 49, 50, 46, 53>>, valid |-> FALSE] }

ParseRows ==
    { Row(Rep(97, n), v, TRUE) : n \in KeyLens, v \in Numerals } \cup MalformedRows

InitParse ==
    /\ feature = "none" /\ BUFFER = <<>> /\ chunk_size = 0
    /\ IdleProgram
    /\ pc = "parse"
    /\ input \in {<<r>> : r \in ParseRows}
    /\ remaning \in {input[1].text, input[1].text \o <<NL, 97, 98, SEMI, 49, 46, 48>>}
    /\ ret = NoRet
    /\ exact = [sum |-> 0, count |-> 0]

ParseCall ==
    /\ pc = "parse"
    /\ ret' \in ParseOutcomes(remaning)
    /\ pc' = "returned"
    /\ UNCHANGED <<feature, input, BUFFER, chunk_size, result, w_pc, w_i, w_stats,
                   channel, i, cities_stats, out, remaning, exact>>

SpecParse == InitParse /\ [][ParseCall]_vars

----------------------------------------------------------------------------
(* An accumulation that has already folded many rows ab;89.9, continued by *)
(* folds (line 127-130) and by merges of a worker's map (lines 74-84).     *)

LimbBase == 256 * 256

\* an integer beyond 32 bits, as hi * LimbBase + lo with 0 <= lo < LimbBase
ExactOf(v) == [hi |-> v \div LimbBase, lo |-> v % LimbBase]

ExactAdd(e, v) ==
    [hi |-> e.hi + ((e.lo + v) \div LimbBase), lo |-> (e.lo + v) % LimbBase]

KeyAB == <<97, 98>>

\* ab;89.9 and ab;1.0
NumRows ==
    { Row(KeyAB, <<56, 57, 46, 57>>, TRUE), Row(KeyAB, <<49, 46, 48>>, TRUE) }

MeasureOf(row) == parse_next_row(row.text).measure

\* the Stats of key ab after n rows ab;89.9
StatsAfter(n) ==
    LET m == MeasureOf(Row(KeyAB, <<56, 57, 46, 57>>, TRUE))
    IN  [min |-> m, max |-> m, sum |-> m * n, count |-> n]

InitNum ==
    /\ IdleInput
    /\ result = <<>> /\ w_pc = <<>> /\ w_i = <<>> /\ w_stats = <<>>
    /\ channel = <<>> /\ i = 0 /\ out = <<>>
    /\ remaning = <<>> /\ ret = NoRet
    /\ pc = "fold"
    /\ \E n \in (NearOverflowRows - MaxNumSteps)..NearOverflowRows :
          /\ cities_stats = [k \in {KeyAB} |-> StatsAfter(n)]
          /\ exact = [sum |-> ExactOf(StatsAfter(n).sum), count |-> n]

\* one more row folded into the map
NumFold ==
    /\ pc = "fold"
    /\ exact.count < NearOverflowRows + MaxNumSteps
    /\ \E row \in NumRows :
          /\ exact' = [sum |-> ExactAdd(exact.sum, MeasureOf(row)), count |-> exact.count + 1]
          /\ \E o \in RowOutcomes(cities_stats, row.text) :
                IF o.kind = "panic"
                THEN pc' = "panicked" /\ UNCHANGED cities_stats
                ELSE cities_stats' = o.map /\ UNCHANGED pc
    /\ UNCHANGED <<feature, input, BUFFER, chunk_size, result, w_pc, w_i, w_stats,
                   channel, i, out, remaning, ret>>

\* the map of a worker that folded n rows ab;89.9 merged into the map
NumMerge ==
    /\ pc = "fold"
    /\ \E n \in 1..MaxNumSteps :
          /\ exact.count + n <= NearOverflowRows + MaxNumSteps
          /\ exact' = [sum |-> ExactAdd(exact.sum, StatsAfter(n).sum),
                       count |-> exact.count + n]
          /\ LET work == [k \in {KeyAB} |-> StatsAfter(n)]
             IN  \/ cities_stats' = merge_map(cities_stats, work) /\ UNCHANGED pc
                 \/ /\ merge_map_overflows(cities_stats, work)
                    /\ pc' = "panicked" /\ UNCHANGED cities_stats
    /\ UNCHANGED <<feature, input, BUFFER, chunk_size, result, w_pc, w_i, w_stats,
                   channel, i, out, remaning, ret>>

NextNum == NumFold \/ NumMerge

SpecNum == InitNum /\ [][NextNum]_vars

----------------------------------------------------------------------------
(* What the claims are stated over.                                        *)

Offsets == 0..(Len(BUFFER) - 1)

ByteAt(o) == BUFFER[o + 1]

AllValid == \A k \in 1..Len(input) : input[k].valid

InputKeys == {input[k].key : k \in 1..Len(input)}

RowsWith(key) == Cardinality({k \in 1..Len(input) : input[k].key = key})

Collected == feature = "multi_thread" /\ pc \in {"output", "done"}

\* the collector is blocked in rx.recv() and no thread is left to send
Hung ==
    /\ feature = "multi_thread" /\ pc = "recv"
    /\ channel = <<>>
    /\ \A w \in DOMAIN w_pc : w_pc[w] # "run"

\* one aggregator run over the chunks one after the other: the loop of
\* lines 119-132 continued from chunk to chunk
RECURSIVE aggregate_rows(_, _, _)
aggregate_rows(bytes, at, acc) ==
    IF acc.kind # "ok" \/ at >= Len(bytes)
    THEN acc
    ELSE LET r == parse_next_row(Slice(bytes, at, Len(bytes)))
         IN  IF r.kind # "ok"
             THEN [kind |-> r.kind]
             ELSE aggregate_rows(bytes, at + r.last,
                                 [kind |-> "ok", map |-> fold_into(acc.map, r.city, r.measure)])

RECURSIVE aggregate_chunks(_, _)
aggregate_chunks(k, acc) ==
    IF k > Len(result)
    THEN acc
    ELSE aggregate_chunks(k + 1, aggregate_rows(ChunkBytes(k), 0, acc))

SequentialAggregate == aggregate_chunks(1, [kind |-> "ok", map |-> EmptyMap])

RECURSIVE Digits(_)
Digits(n) == IF n < 10 THEN <<ZERO + n>> ELSE Digits(n \div 10) \o <<ZERO + (n % 10)>>

\* a value scaled by 10, written with one fractional digit
Render1(v) ==
    LET a == IF v < 0 THEN -v ELSE v
    IN  (IF v < 0 THEN <<45>> ELSE <<>>) \o Digits(a \div 10) \o <<46, ZERO + (a % 10)>>

FirstNewline(slice) ==
    LET at == {k \in 1..Len(slice) : slice[k] = NL}
    IN  IF at = {} THEN Len(slice) ELSE MinOf(at) - 1

----------------------------------------------------------------------------
(* The claims.                                                             *)

\* C1: the chunks that chunks() returns are pairwise disjoint, every offset
\* of [0, len) (a newline's included) lies in a chunk, and every chunk but
\* the first starts right after a newline, so no row is split.
C1_ChunksPartitionBuffer ==
    (feature = "multi_thread" /\ pc # "start") =>
        /\ \A o \in Offsets :
              Cardinality({k \in 1..Len(result) : result[k].s <= o /\ o < result[k].e}) = 1
        /\ \A k \in 1..Len(result) : 0 <= result[k].s /\ result[k].e <= Len(BUFFER)
        /\ \A k \in 2..Len(result) : result[k].s > 0 /\ ByteAt(result[k].s - 1) = NL

\* C2: parse_next_row on a valid row returns a measure whose rendering at
\* one fractional digit is the row's numeric text.
C2_ParseRoundTrip ==
    (pc = "returned" /\ input[1].valid) =>
        /\ ret.kind = "ok"
        /\ Render1(ret.measure) = input[1].val

\* C3: whatever order the workers' maps arrive in, once the collector has
\* merged them all its map is the one a single sequential aggregation of
\* the same chunks builds: same keys, same min, max, sum and count.
C3_MergeOrderIndependent ==
    Collected =>
        /\ SequentialAggregate.kind = "ok"
        /\ cities_stats = SequentialAggregate.map

\* C3 witness: the collector has merged the maps of three workers, each of
\* which folded a row, two of them holding the same key with different Stats.
C3_Witness ==
    /\ Collected
    /\ \E u, v, w \in DOMAIN w_stats :
          /\ u < v /\ v < w
          /\ w_stats[u] # EmptyMap /\ w_stats[v] # EmptyMap /\ w_stats[w] # EmptyMap
          /\ \E key \in DOMAIN w_stats[u] \cap DOMAIN w_stats[w] :
                w_stats[u][key] # w_stats[w][key]

\* C4: on valid rows, after the merge every key of the input is in the
\* global map with count the number of input rows carrying it, and no other
\* key is.
C4_CountsExact ==
    (Collected /\ AllValid) =>
        /\ DOMAIN cities_stats = InputKeys
        /\ \A key \in InputKeys : cities_stats[key].count = RowsWith(key)

\* C5: with a malformed row in the input no map ever holds an entry for it
\* and nothing is written: the run ends in a failure.
C5_MalformedRowFails ==
    (~AllValid /\ feature # "none") =>
        /\ pc # "done"
        /\ out = <<>>
        /\ \A k \in 1..Len(input) :
              ~input[k].valid =>
                  /\ input[k].key \notin DOMAIN cities_stats
                  /\ \A w \in DOMAIN w_stats : input[k].key \notin DOMAIN w_stats[w]

\* C6: when a worker has died without sending, the collector does not end
\* up blocked in its receive loop with no message left to come.
C6_CollectorDoesNotHang ==
    (\E w \in DOMAIN w_pc : w_pc[w] = "panicked") => ~Hung

\* C7: in both variants the keys are written in strictly ascending byte
\* order, each key of the map once (here: already on inputs of valid rows).
C7_OutputSorted ==
    AllValid =>
    /\ \A k \in 1..(Len(out) - 1) : LexLess(out[k], out[k + 1])
    /\ pc = "done" => (Emitted = DOMAIN cities_stats /\ Len(out) = Cardinality(Emitted))

\* C8: find_new_line_pos returns the offset of the first newline of the
\* slice, or the length of the slice when it holds none.
C8_ScanFindsFirstNewline ==
    pc = "returned" => ret.pos = FirstNewline(remaning)

\* C9: on valid rows every worker ends its loop by sending its map, no
\* message is lost or received twice, the collector is never left waiting
\* for a message that cannot come, and it leaves its loop only after one
\* message per chunk.
C9_CollectionTerminates ==
    (feature = "multi_thread" /\ AllValid) =>
        /\ \A w \in DOMAIN w_pc : w_pc[w] # "panicked"
        /\ i + Len(channel) = Cardinality({w \in DOMAIN w_pc : w_pc[w] = "sent"})
        /\ ~Hung
        /\ Collected => (i = Len(result) /\ \A w \in DOMAIN w_pc : w_pc[w] = "sent")

\* C10: the accumulated sum is the arithmetic sum of the rows folded and
\* merged so far and count is their number: no += overflows.
C10_SumExact ==
    /\ pc # "panicked"
    /\ \A key \in DOMAIN cities_stats :
          /\ ExactOf(cities_stats[key].sum) = exact.sum
          /\ cities_stats[key].count = exact.count

====
